---- MODULE Spec2Model ----
(***************************************************************************)
(* A model of two pieces of riegeli:                                       *)
(*   - StringWriterBase (riegeli/bytes/string_writer.cc): a Writer which   *)
(*     appends to a std::string, spilling into a Chain (secondary_buffer_) *)
(*     when the string has no spare capacity;                              *)
(*   - SharedBuffer (riegeli/base/shared_buffer.h): a byte buffer with     *)
(*     shared ownership through an atomic reference count.                 *)
(* Sizes are scaled down: size_t is SizeBits wide, and std::string has a   *)
(* max_size() of a few bytes, so that the overflow paths are reachable.    *)
(***************************************************************************)
EXTENDS Integers, Sequences, FiniteSets, TLC

(***************************************************************************)
(* Bounds of the model.                                                    *)
(***************************************************************************)
\* Largest initial capacity() of the destination string.
MaxInitCap == 1
\* Largest number of bytes of one Write() / WriteZeros() / window fill.
MaxWrite == 2
\* Largest min_length of a Push().
MaxPush == 2
\* Largest recommended_length of a Push().
MaxRec == 2

(***************************************************************************)
(* Scaled program constants.                                               *)
(***************************************************************************)
\* Number of values of size_t (2^64 in the program).
SizeModulus == 16
\* std::string::max_size() of the destination.
max_size == 4
\* riegeli::kMaxBytesToCopy: the longest source which Write() copies into
\* the window instead of calling WriteSlow().
kMaxBytesToCopy == 1

\* Unsigned arithmetic of size_t.
USub(a, b) == (((a - b) % SizeModulus) + SizeModulus) % SizeModulus
UnsignedMin(a, b) == IF a < b THEN a ELSE b
UnsignedMax(a, b) == IF a > b THEN a ELSE b

\* Bytes a caller writes; WriteZeros() and std::string::resize() give 0.
DataBytes == {0, 1}
\* The content of memory which AppendBuffer() hands out and nobody has
\* written yet. It is never read by the writer: the marker differs from every
\* byte a caller writes, so any leak of it into the destination shows.
Uninit == -1

Zeros(n) == [i \in 1..n |-> 0]
Fill(n, b) == [i \in 1..n |-> b]
\* The sources a caller writes: up to n bytes, written in one piece.
Sources(n) == {Fill(k, b) : k \in 1..n, b \in DataBytes}

VARIABLES
  dest,        \* *dest_string(): the characters of the destination
  dest_cap,    \* dest_string()->capacity()
  secondary,   \* secondary_buffer_: the bytes of the Chain
  buf,         \* what start() points into: "dest" (&dest[0]), "sec", "null"
  buf_size,    \* limit() - start()
  cur,         \* cursor() - start()
  start_pos,   \* Writer::start_pos()
  healthy,     \* Object::healthy()
  crashed,     \* the process was terminated by a failed check
  written,     \* history: the bytes logically written so far
  tr,          \* history: the last truncation below pos()
  op,          \* history: the last operation called
  ret          \* history: what the last operation returned

wvars == <<dest, dest_cap, secondary, buf, buf_size, cur, start_pos, healthy,
           crashed, written, tr, op, ret>>

VARIABLES
  payload_,    \* SharedBuffer::payload_ of each instance; 0 is nullptr
  alive,       \* the instance is constructed and not yet destroyed
  shares,      \* pointers returned by Share() and not yet given to DeleteShared()
  ref_count,   \* Payload::ref_count of each payload
  pcapacity,   \* Payload::capacity of each payload
  pstate,      \* "none": not allocated yet, "live", "freed"
  frees,       \* how many times DeleteAligned() was called on the payload
  misuse,      \* a payload was accessed after it was freed
  oom,         \* an allocation failed: the process ended
  sb_op        \* history: the last operation on a SharedBuffer

bvars == <<payload_, alive, shares, ref_count, pcapacity, pstate, frees,
           misuse, oom, sb_op>>

VARIABLES
  c_ref,       \* Payload::ref_count of the payload the threads share
  c_state,     \* "live" or "freed"
  c_frees,     \* how many times DeleteAligned() was called on it
  c_misuse,    \* ref_count was accessed after the payload was freed
  t_held,      \* references (instances, share pointers) each thread owns
  t_pc         \* where each thread is in Payload::Unref()

cvars == <<c_ref, c_state, c_frees, c_misuse, t_held, t_pc>>

\* The writer's fields as one value, so that the code's statements compose.
W == [dest |-> dest, cap |-> dest_cap, sec |-> secondary, buf |-> buf,
      size |-> buf_size, cur |-> cur, start_pos |-> start_pos,
      healthy |-> healthy, crashed |-> crashed, ret |-> TRUE]

(***************************************************************************)
(* Writer base class: the window and the position.                         *)
(***************************************************************************)
available(s) == s.size - s.cur
start_to_cursor(s) == s.cur
pos(s) == s.start_pos + s.cur
limit_pos(s) == s.start_pos + s.size
set_buffer(s, b, size, c) == [s EXCEPT !.buf = b, !.size = size, !.cur = c]
set_start_pos(s, p) == [s EXCEPT !.start_pos = p]
move_start_pos(s, n) == [s EXCEPT !.start_pos = s.start_pos + n]
set_cursor(s, c) == [s EXCEPT !.cur = c]
\* start() == &dest[0]
IsDirect(s) == s.buf = "dest"

\* Writer::FailOverflow(): the writer becomes unhealthy, the call returns false.
FailOverflow(s) == [s EXCEPT !.healthy = FALSE, !.ret = FALSE]
ReturnFalse(s) == [s EXCEPT !.ret = FALSE]

(***************************************************************************)
(* The Chain, as far as the writer uses it.                                *)
(***************************************************************************)
\* Chain::RemoveSuffix(length)
RemoveSuffix(c, length) == SubSeq(c, 1, Len(c) - length)
\* The sizes Chain::AppendBuffer(min_length, recommended_length, kAnyLength)
\* may return: at least min_length, up to recommended_length.
AppendBufferSizes(min_length, recommended_length) ==
  min_length..UnsignedMax(min_length, recommended_length)

(***************************************************************************)
(* StringWriterBase: private helpers.                                      *)
(***************************************************************************)
\* Mutant of SyncDestBuffer: the cursor is left at the start of the window.
SyncDestBuffer_CursorAtStart(s) ==
  LET d == SubSeq(s.dest, 1, start_to_cursor(s))
  IN  set_buffer([s EXCEPT !.dest = d], "dest", Len(d), 0)

\* dest.erase(start_to_cursor()); set_buffer(&dest[0], dest.size(), dest.size())
SyncDestBuffer(s) ==
  LET d == SubSeq(s.dest, 1, start_to_cursor(s))
  IN  set_buffer([s EXCEPT !.dest = d], "dest", Len(d), Len(d))

\* dest.resize(dest.capacity()); set_buffer(&dest[0], dest.size(), cursor_index)
MakeDestBuffer(s) ==
  LET cursor_index == Len(s.dest)
      d == s.dest \o Zeros(s.cap - Len(s.dest))
  IN  set_buffer([s EXCEPT !.dest = d], "dest", Len(d), cursor_index)

\* Mutant of SyncSecondaryBuffer: the unused tail of the window is not removed.
SyncSecondaryBuffer_NoTrim(s) ==
  set_buffer(set_start_pos(s, pos(s)), "null", 0, 0)

\* The length SyncSecondaryBuffer() passes to Chain::RemoveSuffix():
\* available(), the part of the window behind the cursor.
SyncSuffixLength(s) == available(s)

\* set_start_pos(pos()); secondary_buffer_.RemoveSuffix(available()); set_buffer()
SyncSecondaryBuffer(s) ==
  LET s1 == set_start_pos(s, pos(s))
      s2 == [s1 EXCEPT !.sec = RemoveSuffix(s1.sec, SyncSuffixLength(s1))]
  IN  set_buffer(s2, "null", 0, 0)

\* secondary_buffer_.AppendBuffer(...) returned len bytes; set_buffer(data, len)
MakeSecondaryBuffer(s, len) ==
  set_buffer([s EXCEPT !.sec = s.sec \o Fill(len, Uninit)], "sec", len, 0)

(***************************************************************************)
(* std::string, as far as the writer uses it.                              *)
(***************************************************************************)
\* The capacities a std::string may have after growing from capacity cap to
\* hold need characters: at least need, at most twice the old capacity.
ReallocCaps(cap, need) ==
  need..UnsignedMin(max_size, UnsignedMax(need, cap + cap))

\* Chain::AppendTo(dest): appends the whole chain to dest; newcap is the
\* capacity the string chooses when it must reallocate. A result longer than
\* dest.max_size() fails a check, which terminates the process.
AppendTo(s, newcap) ==
  IF Len(s.sec) > max_size - Len(s.dest)
    THEN [s EXCEPT !.crashed = TRUE, !.ret = FALSE]
    ELSE [s EXCEPT !.dest = s.dest \o s.sec,
                   !.cap = IF Len(s.dest) + Len(s.sec) <= s.cap
                             THEN s.cap ELSE newcap]

(***************************************************************************)
(* StringWriterBase: the operations.                                       *)
(***************************************************************************)
\* Mutant of PushSlow: with an empty overflow and enough spare capacity in
\* dest, a writer in Secondary mode goes back to a Direct window.
PushSlow_BackToDirect(s, min_length, recommended_length, len) ==
  IF ~s.healthy THEN ReturnFalse(s)
  ELSE IF min_length > USub(max_size, pos(s)) THEN FailOverflow(s)
  ELSE IF IsDirect(s)
    THEN LET s1 == SyncDestBuffer(s)
         IN  IF min_length <= s1.cap - Len(s1.dest)
               THEN MakeDestBuffer(s1)
               ELSE MakeSecondaryBuffer(set_start_pos(s1, Len(s1.dest)), len)
    ELSE LET s1 == SyncSecondaryBuffer(s)
         IN  IF s1.sec = <<>> /\ min_length <= s1.cap - Len(s1.dest)
               THEN MakeDestBuffer(set_start_pos(s1, 0))
               ELSE MakeSecondaryBuffer(s1, len)

\* Mutant of PushSlow: start_pos is not moved when the window leaves dest.
PushSlow_KeepsStartPos(s, min_length, recommended_length, len) ==
  IF ~s.healthy THEN ReturnFalse(s)
  ELSE IF min_length > USub(max_size, pos(s)) THEN FailOverflow(s)
  ELSE IF IsDirect(s)
    THEN LET s1 == SyncDestBuffer(s)
         IN  IF min_length <= s1.cap - Len(s1.dest)
               THEN MakeDestBuffer(s1)
               ELSE MakeSecondaryBuffer(s1, len)
    ELSE MakeSecondaryBuffer(SyncSecondaryBuffer(s), len)

\* Mutant of PushSlow: the test of healthy() is missing.
PushSlow_NoHealthCheck(s, min_length, recommended_length, len) ==
  IF min_length > USub(max_size, pos(s)) THEN FailOverflow(s)
  ELSE IF IsDirect(s)
    THEN LET s1 == SyncDestBuffer(s)
         IN  IF min_length <= s1.cap - Len(s1.dest)
               THEN MakeDestBuffer(s1)
               ELSE MakeSecondaryBuffer(set_start_pos(s1, Len(s1.dest)), len)
    ELSE MakeSecondaryBuffer(SyncSecondaryBuffer(s), len)

\* bool StringWriterBase::PushSlow(size_t min_length, size_t recommended_length)
\* len: the size of the buffer which AppendBuffer() returns if it is called.
PushSlow(s, min_length, recommended_length, len) ==
  IF ~s.healthy THEN ReturnFalse(s)
  ELSE IF min_length > USub(max_size, pos(s)) THEN FailOverflow(s)
  ELSE IF IsDirect(s)
    THEN LET s1 == SyncDestBuffer(s)
         IN  IF min_length <= s1.cap - Len(s1.dest)
               THEN MakeDestBuffer(s1)
               ELSE MakeSecondaryBuffer(set_start_pos(s1, Len(s1.dest)), len)
    ELSE MakeSecondaryBuffer(SyncSecondaryBuffer(s), len)

\* Mutant of WriteSlow: a source that exactly fills the spare capacity of dest
\* is sent to the overflow.
WriteSlow_StrictCapacity(s, src, len) ==
  IF ~s.healthy THEN ReturnFalse(s)
  ELSE IF Len(src) > USub(max_size, pos(s)) THEN FailOverflow(s)
  ELSE LET Secondary(s2) ==
             LET s3 == move_start_pos(s2, Len(src))
                 s4 == [s3 EXCEPT !.sec = s3.sec \o src]
             IN  MakeSecondaryBuffer(s4, len)
       IN  IF IsDirect(s)
             THEN LET s1 == SyncDestBuffer(s)
                  IN  IF Len(src) < s1.cap - Len(s1.dest)
                        THEN MakeDestBuffer([s1 EXCEPT !.dest = s1.dest \o src])
                        ELSE Secondary(set_start_pos(s1, Len(s1.dest)))
             ELSE Secondary(SyncSecondaryBuffer(s))

\* bool StringWriterBase::WriteSlow(src), for a Chain or a Cord, const& or &&:
\* the four overloads differ only in how the bytes of src are moved.
\* len: the size of the buffer which AppendBuffer() returns if it is called.
WriteSlow(s, src, len) ==
  IF ~s.healthy THEN ReturnFalse(s)
  ELSE IF Len(src) > USub(max_size, pos(s)) THEN FailOverflow(s)
  ELSE LET Secondary(s2) ==
             LET s3 == move_start_pos(s2, Len(src))
                 s4 == [s3 EXCEPT !.sec = s3.sec \o src]
             IN  MakeSecondaryBuffer(s4, len)
       IN  IF IsDirect(s)
             THEN LET s1 == SyncDestBuffer(s)
                  IN  IF Len(src) <= s1.cap - Len(s1.dest)
                        THEN MakeDestBuffer([s1 EXCEPT !.dest = s1.dest \o src])
                        ELSE Secondary(set_start_pos(s1, Len(s1.dest)))
             ELSE Secondary(SyncSecondaryBuffer(s))

\* bool StringWriterBase::WriteZerosSlow(Position length)
WriteZerosSlow(s, length, len) ==
  IF ~s.healthy THEN ReturnFalse(s)
  ELSE IF length > USub(max_size, pos(s)) THEN FailOverflow(s)
  ELSE LET Secondary(s2) ==
             LET s3 == move_start_pos(s2, length)
                 s4 == [s3 EXCEPT !.sec = s3.sec \o Zeros(length)]
             IN  MakeSecondaryBuffer(s4, len)
       IN  IF IsDirect(s)
             THEN LET s1 == SyncDestBuffer(s)
                  IN  IF length <= s1.cap - Len(s1.dest)
                        THEN MakeDestBuffer(
                               [s1 EXCEPT !.dest = s1.dest \o Zeros(length)])
                        ELSE Secondary(set_start_pos(s1, Len(s1.dest)))
             ELSE Secondary(SyncSecondaryBuffer(s))

\* Mutant of FlushImpl: start_pos is not reset after the overflow is merged.
FlushImpl_KeepsStartPos(s, newcap) ==
  IF ~s.healthy THEN ReturnFalse(s)
  ELSE IF IsDirect(s) THEN SyncDestBuffer(s)
  ELSE LET s1 == SyncSecondaryBuffer(s)
           s2 == AppendTo(s1, newcap)
       IN  IF s2.crashed THEN s2
           ELSE LET s3 == [s2 EXCEPT !.sec = <<>>]
                IN  set_buffer(s3, "dest", Len(s3.dest), Len(s3.dest))

\* Mutant of FlushImpl: the overflow is merged without SyncSecondaryBuffer().
FlushImpl_NoSync(s, newcap) ==
  IF ~s.healthy THEN ReturnFalse(s)
  ELSE IF IsDirect(s) THEN SyncDestBuffer(s)
  ELSE LET s2 == AppendTo(s, newcap)
       IN  IF s2.crashed THEN s2
           ELSE LET s3 == set_start_pos([s2 EXCEPT !.sec = <<>>], 0)
                IN  set_buffer(s3, "dest", Len(s3.dest), Len(s3.dest))

\* bool StringWriterBase::FlushImpl(FlushType flush_type)
FlushImpl(s, newcap) ==
  IF ~s.healthy THEN ReturnFalse(s)
  ELSE IF IsDirect(s) THEN SyncDestBuffer(s)
  ELSE LET s1 == SyncSecondaryBuffer(s)
           s2 == AppendTo(s1, newcap)
       IN  IF s2.crashed THEN s2
           ELSE LET s3 == set_start_pos([s2 EXCEPT !.sec = <<>>], 0)
                IN  set_buffer(s3, "dest", Len(s3.dest), Len(s3.dest))

\* Mutant of TruncateImpl: a truncation past pos() makes the writer unhealthy.
TruncateImpl_ForwardFailsWriter(s, new_size) ==
  IF ~s.healthy THEN ReturnFalse(s)
  ELSE IF new_size > pos(s) THEN [s EXCEPT !.healthy = FALSE, !.ret = FALSE]
  ELSE IF IsDirect(s) THEN set_cursor(s, new_size)
  ELSE IF new_size < Len(s.dest)
    THEN set_buffer(set_start_pos([s EXCEPT !.sec = <<>>], 0),
                    "dest", Len(s.dest), new_size)
    ELSE LET n == USub(Len(s.dest) + Len(s.sec), new_size)
             s1 == [s EXCEPT !.sec = RemoveSuffix(s.sec, n)]
         IN  set_buffer(set_start_pos(s1, new_size), "null", 0, 0)

\* Mutant of TruncateImpl: a truncation below dest.size() keeps the overflow.
TruncateImpl_BelowKeepsOverflow(s, new_size) ==
  IF ~s.healthy THEN ReturnFalse(s)
  ELSE IF new_size > pos(s) THEN ReturnFalse(s)
  ELSE IF IsDirect(s) THEN set_cursor(s, new_size)
  ELSE IF new_size < Len(s.dest)
    THEN set_buffer(set_start_pos(s, 0), "dest", Len(s.dest), new_size)
    ELSE LET n == USub(Len(s.dest) + Len(s.sec), new_size)
             s1 == [s EXCEPT !.sec = RemoveSuffix(s.sec, n)]
         IN  set_buffer(set_start_pos(s1, new_size), "null", 0, 0)

\* Mutant of TruncateImpl: a truncation below dest.size() keeps start_pos.
TruncateImpl_BelowKeepsStartPos(s, new_size) ==
  IF ~s.healthy THEN ReturnFalse(s)
  ELSE IF new_size > pos(s) THEN ReturnFalse(s)
  ELSE IF IsDirect(s) THEN set_cursor(s, new_size)
  ELSE IF new_size < Len(s.dest)
    THEN set_buffer([s EXCEPT !.sec = <<>>], "dest", Len(s.dest), new_size)
    ELSE LET n == USub(Len(s.dest) + Len(s.sec), new_size)
             s1 == [s EXCEPT !.sec = RemoveSuffix(s.sec, n)]
         IN  set_buffer(set_start_pos(s1, new_size), "null", 0, 0)

\* Mutant of TruncateImpl: a truncation inside the overflow keeps its suffix.
TruncateImpl_KeepsSuffix(s, new_size) ==
  IF ~s.healthy THEN ReturnFalse(s)
  ELSE IF new_size > pos(s) THEN ReturnFalse(s)
  ELSE IF IsDirect(s) THEN set_cursor(s, new_size)
  ELSE IF new_size < Len(s.dest)
    THEN set_buffer(set_start_pos([s EXCEPT !.sec = <<>>], 0),
                    "dest", Len(s.dest), new_size)
    ELSE set_buffer(set_start_pos(s, new_size), "null", 0, 0)

\* Mutant of TruncateSuffixLength: dest.size() is left out of the difference.
TruncateSuffixLength_WithoutDest(s, new_size) == USub(Len(s.sec), new_size)

\* The length TruncateImpl() passes to Chain::RemoveSuffix():
\* dest.size() + secondary_buffer_.size() - IntCast<size_t>(new_size), in
\* the arithmetic of size_t.
TruncateSuffixLength(s, new_size) ==
  USub(Len(s.dest) + Len(s.sec), new_size)

\* bool StringWriterBase::TruncateImpl(Position new_size)
TruncateImpl(s, new_size) ==
  IF ~s.healthy THEN ReturnFalse(s)
  ELSE IF new_size > pos(s) THEN ReturnFalse(s)
  ELSE IF IsDirect(s) THEN set_cursor(s, new_size)
  ELSE IF new_size < Len(s.dest)
    THEN set_buffer(set_start_pos([s EXCEPT !.sec = <<>>], 0),
                    "dest", Len(s.dest), new_size)
    ELSE LET n == TruncateSuffixLength(s, new_size)
             s1 == [s EXCEPT !.sec = RemoveSuffix(s.sec, n)]
         IN  set_buffer(set_start_pos(s1, new_size), "null", 0, 0)

\* Writer::Write(src) while src fits in the window: the bytes are copied to
\* cursor() and the cursor moves; also a caller filling the window after Push().
WriteToWindow(s, src) ==
  LET base == IF IsDirect(s) THEN s.cur ELSE Len(s.sec) - s.size + s.cur
      Put(m) == [i \in 1..Len(m) |->
                   IF i > base /\ i <= base + Len(src) THEN src[i - base]
                   ELSE m[i]]
      s1 == IF IsDirect(s) THEN [s EXCEPT !.dest = Put(s.dest)]
            ELSE [s EXCEPT !.sec = Put(s.sec)]
  IN  set_cursor(s1, s.cur + Len(src))

(***************************************************************************)
(* The writer as a state machine: one action per operation of a caller.    *)
(***************************************************************************)
\* Positions above max_size are reachable (a window may extend past it); the
\* model stops growing the stream at PosCap.
PosCap == max_size + 2

\* tr: which case of TruncateImpl() the last truncation below pos() took, the
\* content it kept and the bytes appended since.
NoTruncation == [kind |-> "none", base |-> <<>>, app |-> <<>>]
\* op: the operation called last, its size argument (for Flush() and
\* ReadMode(): the size of the overflow when it was called), whether it is a
\* Flush() which follows a Flush(), and whether the window was Direct when it
\* was called.
Called(name, n) ==
  [name |-> name, n |-> n, again |-> name = "Flush" /\ op.name = "Flush",
   direct |-> IsDirect(W)]

\* StringWriterBase::Initialize(dest, append = false): the destination is
\* cleared and keeps its capacity, the window is a Direct window over it.
WriterInit ==
  /\ dest = <<>>
  /\ dest_cap \in 0..MaxInitCap
  /\ secondary = <<>>
  /\ buf = "dest" /\ buf_size = 0 /\ cur = 0 /\ start_pos = 0
  /\ healthy = TRUE /\ crashed = FALSE
  /\ written = <<>>
  /\ tr = NoTruncation
  /\ op = [name |-> "Initialize", n |-> 0, again |-> FALSE, direct |-> TRUE]
  /\ ret = TRUE

Install(r) ==
  /\ dest' = r.dest /\ dest_cap' = r.cap /\ secondary' = r.sec
  /\ buf' = r.buf /\ buf_size' = r.size /\ cur' = r.cur
  /\ start_pos' = r.start_pos
  /\ healthy' = r.healthy /\ crashed' = r.crashed /\ ret' = r.ret
  /\ UNCHANGED <<bvars, cvars>>

\* History of a successful append of bytes.
Appended(bytes) ==
  /\ written' = written \o bytes
  /\ tr' = IF tr.kind = "none" THEN tr ELSE [tr EXCEPT !.app = @ \o bytes]

\* Writer::Push(min_length, recommended_length) when available() < min_length.
DoPushSlow ==
  \E min_length \in 1..MaxPush, recommended_length \in 0..MaxRec :
    \E len \in AppendBufferSizes(min_length, recommended_length) :
      LET r == PushSlow(W, min_length, recommended_length, len) IN
        /\ ~crashed
        /\ available(W) < min_length
        /\ limit_pos(r) <= PosCap
        /\ Install(r)
        /\ op' = Called("PushSlow", min_length)
        /\ UNCHANGED <<written, tr>>

\* Writer::Write(src) of a healthy writer when src fits in the window.
DoWrite ==
  \E src \in Sources(MaxWrite) :
    /\ ~crashed /\ healthy
    /\ Len(src) <= available(W)
    /\ Install(WriteToWindow(W, src))
    /\ Appended(src)
    /\ op' = Called("Write", Len(src))

\* Writer::Write(Chain or Cord) when the fast path does not apply.
DoWriteSlow ==
  \E src \in Sources(MaxWrite) :
    \E len \in AppendBufferSizes(0, 0) :
      LET r == WriteSlow(W, src, len) IN
        /\ ~crashed
        /\ UnsignedMin(available(W), kMaxBytesToCopy) < Len(src)
        /\ pos(r) <= PosCap
        /\ Install(r)
        /\ IF r.ret THEN Appended(src) ELSE UNCHANGED <<written, tr>>
        /\ op' = Called("WriteSlow", Len(src))

\* Writer::WriteZeros(length) when the fast path does not apply.
DoWriteZerosSlow ==
  \E length \in 1..MaxWrite :
    \E len \in AppendBufferSizes(0, 0) :
      LET r == WriteZerosSlow(W, length, len) IN
        /\ ~crashed
        /\ UnsignedMin(available(W), kMaxBytesToCopy) < length
        /\ pos(r) <= PosCap
        /\ Install(r)
        /\ IF r.ret THEN Appended(Zeros(length)) ELSE UNCHANGED <<written, tr>>
        /\ op' = Called("WriteZerosSlow", length)

\* Writer::Flush()
DoFlush ==
  \E newcap \in ReallocCaps(dest_cap, UnsignedMin(max_size, pos(W))) :
    /\ ~crashed
    /\ Install(FlushImpl(W, newcap))
    /\ op' = Called("Flush", Len(secondary))
    /\ UNCHANGED <<written, tr>>

\* Writer::Truncate(new_size)
DoTruncate ==
  \E new_size \in 0..(PosCap + 1) :
    LET r == TruncateImpl(W, new_size) IN
      /\ ~crashed
      /\ Install(r)
      /\ written' = IF r.ret THEN SubSeq(written, 1, new_size) ELSE written
      /\ tr' = IF r.ret /\ new_size < pos(W)
                 THEN [kind |-> IF IsDirect(W) THEN "direct"
                                ELSE IF new_size < Len(dest) THEN "below"
                                ELSE "inside",
                       base |-> SubSeq(written, 1, new_size),
                       app |-> <<>>]
                 ELSE tr
      /\ op' = Called("Truncate", new_size)

\* Writer::ReadMode(initial_pos): Reader* StringWriterBase::ReadModeImpl().
\* The reader is a StringReader over dest; seeking it to initial_pos changes
\* nothing of the writer. ret is whether a reader was returned.
DoReadMode ==
  \E newcap \in ReallocCaps(dest_cap, UnsignedMin(max_size, pos(W))) :
    LET r == FlushImpl(W, newcap) IN
      /\ ~crashed
      /\ Install(r)
      /\ op' = Called("ReadMode", Len(secondary))
      /\ UNCHANGED <<written, tr>>

WriterNext ==
  \/ DoPushSlow
  \/ DoWrite
  \/ DoWriteSlow
  \/ DoWriteZerosSlow
  \/ DoFlush
  \/ DoTruncate
  \/ DoReadMode

(***************************************************************************)
(* SharedBuffer (riegeli/base/shared_buffer.h).                            *)
(***************************************************************************)
\* Number of SharedBuffer objects the model constructs at a time.
NInst == 2
\* Number of payloads the model allocates.
NPay == 2
\* Largest number of outstanding Share() pointers.
MaxShares == 1
\* Largest small min_capacity a caller asks for.
MaxMinCapacity == 1
\* How many bytes more than requested the allocator may return.
MaxRound == 1
\* Largest block the allocator can provide; a larger request ends the process.
HeapMax == SizeModulus \div 4
\* offsetof(Payload, allocated_begin), scaled.
kPayloadHeader == 2

Inst == 1..NInst
Pay == 1..NPay
\* The values of min_capacity a caller passes: small ones, and SIZE_MAX.
MinCapacities == (0..MaxMinCapacity) \cup {SizeModulus - 1}

\* riegeli::SaturatingAdd
SaturatingAdd(a, b) ==
  IF a + b > SizeModulus - 1 THEN SizeModulus - 1 ELSE a + b

\* The state of all SharedBuffers and payloads as one value; req is the
\* capacity the operation asks AllocateInternal() for (0 when it does not).
B == [payload |-> payload_, alive |-> alive, shares |-> shares,
      ref_count |-> ref_count, cap |-> pcapacity, pstate |-> pstate,
      frees |-> frees, misuse |-> misuse, oom |-> oom, req |-> 0]

\* DeleteAligned<Payload>(this, ...): the fields of a freed payload no longer
\* exist; the model zeroes them.
DeletePayload(b, p) ==
  [b EXCEPT !.pstate[p] = "freed", !.frees[p] = @ + 1,
            !.ref_count[p] = 0, !.cap[p] = 0,
            !.misuse = b.misuse \/ b.pstate[p] # "live"]

\* void SharedBuffer::Payload::Ref()
Ref(b, p) ==
  [b EXCEPT !.ref_count[p] = (@ + 1) % SizeModulus,
            !.misuse = b.misuse \/ b.pstate[p] # "live"]

\* void SharedBuffer::Payload::Unref(), run by one thread without interleaving
Unref(b, p) ==
  IF b.pstate[p] # "live" THEN [b EXCEPT !.misuse = TRUE]
  ELSE IF b.ref_count[p] = 1 THEN DeletePayload(b, p)
  ELSE LET old == b.ref_count[p]
           b1 == [b EXCEPT !.ref_count[p] = USub(old, 1)]
       IN  IF old = 1 THEN DeletePayload(b1, p) ELSE b1

\* The payload the next allocation returns: one never allocated before.
FreshPayload(b) == CHOOSE p \in Pay : b.pstate[p] = "none" /\
                     \A q \in Pay : q < p => b.pstate[q] # "none"
CanAllocate(b) == \E p \in Pay : b.pstate[p] = "none"

\* void SharedBuffer::AllocateInternal(size_t min_capacity)
\* A request the allocator cannot serve ends the process.
\* round: how much more than requested SizeReturningNewAligned() returns.
AllocateInternal(b, i, min_capacity, round) ==
  LET request == (kPayloadHeader + min_capacity) % SizeModulus
      raw_capacity == request + round
      p == FreshPayload(b)
  IN  IF request > HeapMax THEN [b EXCEPT !.oom = TRUE, !.req = min_capacity]
      ELSE [b EXCEPT !.payload[i] = p, !.pstate[p] = "live",
                     !.ref_count[p] = 1, !.req = min_capacity,
                     !.cap[p] = USub(raw_capacity, kPayloadHeader)]

\* bool SharedBuffer::has_unique_owner() const
has_unique_owner(b, i) ==
  IF b.payload[i] = 0 THEN TRUE ELSE b.ref_count[b.payload[i]] = 1

\* size_t SharedBuffer::capacity() const
capacity(b, i) == IF b.payload[i] = 0 THEN 0 ELSE b.cap[b.payload[i]]

\* SharedBuffer::SharedBuffer(const SharedBuffer& that)
CopyConstruct(b, i, that) ==
  LET b1 == [b EXCEPT !.alive[i] = TRUE, !.payload[i] = b.payload[that]]
  IN  IF b1.payload[i] # 0 THEN Ref(b1, b1.payload[i]) ELSE b1

\* Mutant of operator=(const SharedBuffer&): the old payload is released
\* before the new one is referenced.
CopyAssign_UnrefFirst(b, i, that) ==
  LET payload == b.payload[that]
      b1 == IF b.payload[i] # 0 THEN Unref(b, b.payload[i]) ELSE b
      b2 == IF payload # 0 THEN Ref(b1, payload) ELSE b1
  IN  [b2 EXCEPT !.payload[i] = payload]

\* SharedBuffer& SharedBuffer::operator=(const SharedBuffer& that)
CopyAssign(b, i, that) ==
  LET payload == b.payload[that]
      b1 == IF payload # 0 THEN Ref(b, payload) ELSE b
      b2 == IF b1.payload[i] # 0 THEN Unref(b1, b1.payload[i]) ELSE b1
  IN  [b2 EXCEPT !.payload[i] = payload]

\* Mutant of the move constructor: the source keeps its pointer.
MoveConstruct_KeepsSource(b, i, that) ==
  [b EXCEPT !.alive[i] = TRUE, !.payload[i] = b.payload[that]]

\* SharedBuffer::SharedBuffer(SharedBuffer&& that)
MoveConstruct(b, i, that) ==
  [b EXCEPT !.alive[i] = TRUE, !.payload[i] = b.payload[that],
            !.payload[that] = 0]

\* SharedBuffer& SharedBuffer::operator=(SharedBuffer&& that)
MoveAssign(b, i, that) ==
  LET payload == b.payload[that]
      b1 == [b EXCEPT !.payload[that] = 0]
      b2 == IF b1.payload[i] # 0 THEN Unref(b1, b1.payload[i]) ELSE b1
  IN  [b2 EXCEPT !.payload[i] = payload]

\* SharedBuffer::~SharedBuffer()
Destroy(b, i) ==
  LET b1 == IF b.payload[i] # 0 THEN Unref(b, b.payload[i]) ELSE b
  IN  [b1 EXCEPT !.alive[i] = FALSE, !.payload[i] = 0]

\* Mutant of Reset: the capacity is doubled only when the instance is the
\* unique owner of the payload it replaces.
Reset_DoublesOnlyOwned(b, i, min_capacity, round) ==
  IF b.payload[i] # 0
    THEN IF has_unique_owner(b, i) /\ b.cap[b.payload[i]] >= min_capacity
           THEN b
           ELSE LET c == b.cap[b.payload[i]]
                    m == IF has_unique_owner(b, i)
                           THEN UnsignedMax(min_capacity, SaturatingAdd(c, c))
                           ELSE min_capacity
                IN  AllocateInternal(Unref(b, b.payload[i]), i, m, round)
    ELSE AllocateInternal(b, i, min_capacity, round)

\* Mutant of Reset: a payload of exactly min_capacity is not reused.
Reset_StrictlyLarger(b, i, min_capacity, round) ==
  IF b.payload[i] # 0
    THEN IF has_unique_owner(b, i) /\ b.cap[b.payload[i]] > min_capacity
           THEN b
           ELSE LET c == b.cap[b.payload[i]]
                    m == UnsignedMax(min_capacity, SaturatingAdd(c, c))
                IN  AllocateInternal(Unref(b, b.payload[i]), i, m, round)
    ELSE AllocateInternal(b, i, min_capacity, round)

\* void SharedBuffer::Reset(size_t min_capacity)
Reset(b, i, min_capacity, round) ==
  IF b.payload[i] # 0
    THEN IF has_unique_owner(b, i) /\ b.cap[b.payload[i]] >= min_capacity
           THEN b
           ELSE LET c == b.cap[b.payload[i]]
                    m == UnsignedMax(min_capacity, SaturatingAdd(c, c))
                IN  AllocateInternal(Unref(b, b.payload[i]), i, m, round)
    ELSE AllocateInternal(b, i, min_capacity, round)

\* void* SharedBuffer::Share() const
Share(b, i) ==
  IF b.payload[i] = 0 THEN b
  ELSE [Ref(b, b.payload[i]) EXCEPT !.shares[b.payload[i]] = @ + 1]

\* void SharedBuffer::DeleteShared(void* ptr)
DeleteShared(b, ptr) ==
  IF ptr # 0 THEN [Unref(b, ptr) EXCEPT !.shares[ptr] = @ - 1] ELSE b

(***************************************************************************)
(* SharedBuffer as a state machine: one thread constructs, assigns, shares *)
(* and destroys the instances.                                             *)
(***************************************************************************)
BufferInit ==
  /\ payload_ = [i \in Inst |-> 0]
  /\ alive = [i \in Inst |-> FALSE]
  /\ shares = [p \in Pay |-> 0]
  /\ ref_count = [p \in Pay |-> 0]
  /\ pcapacity = [p \in Pay |-> 0]
  /\ pstate = [p \in Pay |-> "none"]
  /\ frees = [p \in Pay |-> 0]
  /\ misuse = FALSE
  /\ oom = FALSE
  /\ sb_op = [name |-> "other", i |-> 0, n |-> 0, self |-> FALSE,
              kept |-> FALSE, req |-> 0]

\* The operations the history tells apart.
Recorded == {"Reset", "CopyAssign", "MoveAssign"}

\* sb_op: the operation; for Reset the instance, the size asked for, whether
\* the instance kept its payload and the capacity requested from the allocator; for an assignment whether it
\* assigned the instance to itself.
BInstall(b, name, i, n, self) ==
  /\ payload_' = b.payload /\ alive' = b.alive /\ shares' = b.shares
  /\ ref_count' = b.ref_count /\ pcapacity' = b.cap /\ pstate' = b.pstate
  /\ frees' = b.frees /\ misuse' = b.misuse /\ oom' = b.oom
  /\ sb_op' = [name |-> IF name \in Recorded THEN name ELSE "other",
               i |-> i, n |-> n, self |-> self,
               kept |-> i # 0 /\ b.payload[i] = payload_[i],
               req |-> IF name = "Reset" THEN b.req ELSE 0]
  /\ UNCHANGED <<wvars, cvars>>

RECURSIVE Outstanding(_, _)
Outstanding(sh, n) == IF n = 0 THEN 0 ELSE sh[n] + Outstanding(sh, n - 1)

\* SharedBuffer(): the null buffer
DoConstruct ==
  \E i \in Inst :
    /\ ~oom /\ ~alive[i]
    /\ BInstall([B EXCEPT !.alive[i] = TRUE, !.payload[i] = 0],
                "Construct", 0, 0, FALSE)

\* SharedBuffer(size_t min_capacity)
DoAllocate ==
  \E i \in Inst, min_capacity \in MinCapacities, round \in 0..MaxRound :
    /\ ~oom /\ ~alive[i] /\ CanAllocate(B)
    /\ BInstall(AllocateInternal([B EXCEPT !.alive[i] = TRUE], i,
                                 min_capacity, round),
                "Allocate", 0, 0, FALSE)

DoCopyConstruct ==
  \E i \in Inst, that \in Inst :
    /\ ~oom /\ ~alive[i] /\ alive[that]
    /\ BInstall(CopyConstruct(B, i, that), "CopyConstruct", 0, 0, FALSE)

DoCopyAssign ==
  \E i \in Inst, that \in Inst :
    /\ ~oom /\ alive[i] /\ alive[that]
    /\ BInstall(CopyAssign(B, i, that), "CopyAssign", 0, 0, i = that)

DoMoveConstruct ==
  \E i \in Inst, that \in Inst :
    /\ ~oom /\ ~alive[i] /\ alive[that]
    /\ BInstall(MoveConstruct(B, i, that), "MoveConstruct", 0, 0, FALSE)

DoMoveAssign ==
  \E i \in Inst, that \in Inst :
    /\ ~oom /\ alive[i] /\ alive[that]
    /\ BInstall(MoveAssign(B, i, that), "MoveAssign", 0, 0, i = that)

DoDestroy ==
  \E i \in Inst :
    /\ ~oom /\ alive[i]
    /\ BInstall(Destroy(B, i), "Destroy", 0, 0, FALSE)

DoReset ==
  \E i \in Inst, min_capacity \in MinCapacities, round \in 0..MaxRound :
    /\ ~oom /\ alive[i]
    /\ \/ payload_[i] # 0 /\ has_unique_owner(B, i)
                          /\ capacity(B, i) >= min_capacity
       \/ CanAllocate(B)
    /\ BInstall(Reset(B, i, min_capacity, round), "Reset", i, min_capacity,
                FALSE)

DoShare ==
  \E i \in Inst :
    /\ ~oom /\ alive[i]
    /\ payload_[i] # 0 => Outstanding(shares, NPay) < MaxShares
    /\ BInstall(Share(B, i), "Share", 0, 0, FALSE)

DoDeleteShared ==
  \E ptr \in {0} \cup {p \in Pay : shares[p] > 0} :
    /\ ~oom
    /\ BInstall(DeleteShared(B, ptr), "DeleteShared", 0, 0, FALSE)

BufferNext ==
  \/ DoConstruct
  \/ DoAllocate
  \/ DoCopyConstruct
  \/ DoCopyAssign
  \/ DoMoveConstruct
  \/ DoMoveAssign
  \/ DoDestroy
  \/ DoReset
  \/ DoShare
  \/ DoDeleteShared

(***************************************************************************)
(* Several threads release their references to one payload concurrently.   *)
(* Payload::Unref() is two atomic operations: the load and the fetch_sub.  *)
(***************************************************************************)
\* Number of threads.
NThreads == 3
\* Largest number of references one thread owns.
MaxHeld == 2

Threads == 1..NThreads

RECURSIVE SumHeld(_, _)
SumHeld(h, n) == IF n = 0 THEN 0 ELSE h[n] + SumHeld(h, n - 1)

\* Mutant of LastReference: the value after the decrement is expected.
LastReference_NewValue(old) == old = 0

\* ref_count.fetch_sub(1, std::memory_order_acq_rel) == 1
LastReference(old) == old = 1

\* Each thread owns some references to the payload: copies of a SharedBuffer
\* or pointers returned by Share().
ReleaseInit ==
  /\ t_held \in [Threads -> 1..MaxHeld]
  /\ c_ref = SumHeld(t_held, NThreads)
  /\ c_state = "live"
  /\ c_frees = 0
  /\ c_misuse = FALSE
  /\ t_pc = [t \in Threads |-> "idle"]

\* Payload::Ref(): a thread copies a SharedBuffer it owns, or calls Share().
ThreadRef(t) ==
  /\ t_pc[t] = "idle" /\ t_held[t] > 0 /\ t_held[t] < MaxHeld
  /\ c_ref' = (c_ref + 1) % SizeModulus
  /\ t_held' = [t_held EXCEPT ![t] = @ + 1]
  /\ c_misuse' = (c_misuse \/ c_state # "live")
  /\ UNCHANGED <<c_state, c_frees, t_pc>>
  /\ UNCHANGED <<wvars, bvars>>

\* Payload::Unref(): ref_count.load(std::memory_order_acquire) == 1
ThreadLoad(t) ==
  /\ t_pc[t] = "idle" /\ t_held[t] > 0
  /\ t_pc' = [t_pc EXCEPT ![t] = IF c_ref = 1 THEN "delete" ELSE "sub"]
  /\ c_misuse' = (c_misuse \/ c_state # "live")
  /\ UNCHANGED <<c_ref, c_state, c_frees, t_held>>
  /\ UNCHANGED <<wvars, bvars>>

\* Payload::Unref(): ref_count.fetch_sub(1, std::memory_order_acq_rel) == 1
ThreadFetchSub(t) ==
  /\ t_pc[t] = "sub"
  /\ c_ref' = USub(c_ref, 1)
  /\ c_misuse' = (c_misuse \/ c_state # "live")
  /\ IF LastReference(c_ref)
       THEN t_pc' = [t_pc EXCEPT ![t] = "delete"] /\ UNCHANGED t_held
       ELSE /\ t_pc' = [t_pc EXCEPT ![t] = "idle"]
            /\ t_held' = [t_held EXCEPT ![t] = @ - 1]
  /\ UNCHANGED <<c_state, c_frees>>
  /\ UNCHANGED <<wvars, bvars>>

\* Payload::Unref(): DeleteAligned<Payload>(this, ...)
ThreadDelete(t) ==
  /\ t_pc[t] = "delete"
  /\ c_state' = "freed"
  /\ c_frees' = c_frees + 1
  /\ c_misuse' = (c_misuse \/ c_state # "live")
  /\ t_pc' = [t_pc EXCEPT ![t] = "idle"]
  /\ t_held' = [t_held EXCEPT ![t] = @ - 1]
  /\ UNCHANGED c_ref
  /\ UNCHANGED <<wvars, bvars>>

ReleaseNext ==
  \E t \in Threads :
    \/ ThreadRef(t)
    \/ ThreadLoad(t)
    \/ ThreadFetchSub(t)
    \/ ThreadDelete(t)

(***************************************************************************)
(* The specifications.                                                     *)
(***************************************************************************)
\* The parts a specification does not exercise stay in one fixed state.
WriterParked ==
  /\ dest = <<>> /\ dest_cap = 0 /\ secondary = <<>>
  /\ buf = "dest" /\ buf_size = 0 /\ cur = 0 /\ start_pos = 0
  /\ healthy = TRUE /\ crashed = FALSE
  /\ written = <<>> /\ tr = NoTruncation
  /\ op = [name |-> "Initialize", n |-> 0, again |-> FALSE, direct |-> TRUE]
  /\ ret = TRUE

ReleaseParked ==
  /\ t_held = [t \in Threads |-> 0]
  /\ c_ref = 0 /\ c_state = "live" /\ c_frees = 0 /\ c_misuse = FALSE
  /\ t_pc = [t \in Threads |-> "idle"]

vars == <<wvars, bvars, cvars>>

\* The writer.
Init == WriterInit /\ BufferInit /\ ReleaseParked
Next == WriterNext
Spec == Init /\ [][Next]_vars

\* SharedBuffer used by one thread.
InitBuffer == WriterParked /\ BufferInit /\ ReleaseParked
SpecBuffer == InitBuffer /\ [][BufferNext]_vars

\* Threads releasing one payload.
InitRelease == WriterParked /\ BufferInit /\ ReleaseInit
SpecRelease == InitRelease /\ [][ReleaseNext]_vars

(***************************************************************************)
(* Properties of the writer.                                               *)
(***************************************************************************)
SlowAppends == {"PushSlow", "WriteSlow", "WriteZerosSlow"}

\* C1: in every reachable state of the writer, limit_pos() equals
\* dest.size() + secondary_buffer_.size(), so the RIEGELI_ASSERT_EQ at the
\* head of every slow-path operation never fires.
C1_PositionInvariant == limit_pos(W) = Len(dest) + Len(secondary)

\* C1 witness: a read-mode entry after a truncation inside the overflow and
\* more appends, with bytes both in the destination and from the overflow.
C1_Witness ==
  /\ op.name = "ReadMode" /\ ret
  /\ tr.kind = "inside" /\ Len(tr.app) > 0
  /\ Len(dest) > dest_cap - 1

\* C2: after any mix of appends (none of them preceded by a truncation below
\* pos()), a successful Flush() leaves in dest exactly the bytes appended, in
\* order, and dest.size() == len(b) == pos().
C2_RoundTrip ==
  (op.name = "Flush" /\ ret /\ tr.kind = "none")
    => (dest = written /\ Len(dest) = Len(written) /\ pos(W) = Len(dest))

\* C2 witness: a flush which merged overflow bytes behind bytes written
\* directly; both byte values occur, the string had to grow.
C2_Witness ==
  /\ op.name = "Flush" /\ ret /\ tr.kind = "none"
  /\ Len(dest) = max_size
  /\ dest[1] = 1 /\ dest[max_size] = 0 /\ dest[max_size - 1] = 1

\* C3: after truncate(k) with k < pos() kept original[0:k], appending bytes
\* and flushing yields original[0:k] followed by the new bytes, in each of
\* the three cases of TruncateImpl().
C3_TruncateThenAppend ==
  (op.name = "Flush" /\ ret /\ tr.kind \in {"direct", "below", "inside"})
    => dest = tr.base \o tr.app

\* C3 witness: the flush after a truncation inside the overflow region and
\* an append of new bytes.
C3_Witness ==
  /\ op.name = "Flush" /\ ret
  /\ tr.kind = "inside" /\ Len(tr.base) > 1 /\ Len(tr.app) > 1
  /\ tr.base[1] # tr.app[1]

\* C7: once the writer is unhealthy every operation returns false and leaves
\* the destination, the overflow, the window and start_pos as they were, and
\* the writer stays unhealthy.
C7_FailureIsTerminal ==
  [][~healthy =>
       /\ ~healthy' /\ ret' = FALSE
       /\ UNCHANGED <<dest, dest_cap, secondary, buf, buf_size, cur, start_pos>>
    ]_wvars

\* C7 witness: a read-mode entry refused by an unhealthy writer which still
\* holds bytes in the overflow and a window.
C7_Witness ==
  /\ ~healthy /\ op.name = "ReadMode" /\ ~ret
  /\ Len(secondary) > 0 /\ buf_size > cur

\* C8: a slow-path append of n bytes on a healthy writer fails exactly when
\* n > dest.max_size() - pos(), and the failure makes the writer unhealthy
\* and leaves the destination and the overflow untouched.
C8_OverflowExactly ==
  [][(healthy /\ op'.name \in SlowAppends) =>
       /\ (ret' = FALSE) <=> (op'.n > max_size - pos(W))
       /\ (ret' = FALSE) =>
            (~healthy' /\ UNCHANGED <<dest, dest_cap, secondary>>)
    ]_wvars

\* C9: a second Flush() right after a successful Flush() succeeds and changes
\* nothing: destination, overflow, pos(), start_pos and window are the same.
C9_FlushIdempotent ==
  [][(op.name = "Flush" /\ ret /\ op'.name = "Flush") =>
       /\ ret'
       /\ UNCHANGED <<dest, dest_cap, secondary, buf, buf_size, cur, start_pos>>
    ]_wvars

\* C9 witness: the second of two flushes in a row, on a non-empty stream
\* which went through the overflow.
C9_Witness ==
  /\ op.name = "Flush" /\ op.again /\ ret
  /\ Len(dest) > MaxInitCap

\* C13: Truncate(new_size) with new_size > pos() on a healthy writer returns
\* false and changes nothing: destination, overflow, window, start_pos and
\* pos() are as before and the writer stays healthy, so every operation that
\* would have succeeded before still does.
C13_TruncateForwardRejected ==
  [][(op'.name = "Truncate" /\ healthy /\ op'.n > pos(W)) =>
       /\ ret' = FALSE /\ healthy'
       /\ UNCHANGED <<dest, dest_cap, secondary, buf, buf_size, cur, start_pos>>
    ]_wvars

\* C13 witness: a truncation past pos() was refused while the writer held
\* bytes in the overflow and an open window with bytes written into it.
C13_Witness ==
  /\ op.name = "Truncate" /\ ~ret /\ healthy /\ op.n > pos(W)
  /\ buf = "sec" /\ cur > 0 /\ buf_size > cur /\ Len(dest) > 0

\* C14: after every successful flush, called as Flush() or forced by
\* ReadMode(), the overflow is empty, start_pos is 0, the window is a Direct
\* window without slack and dest.size() == pos(), so a reader over dest sees
\* exactly the bytes written so far; ReadMode() of an unhealthy writer, whose
\* flush fails, returns no reader.
C14_AfterFlush ==
  /\ (op.name \in {"Flush", "ReadMode"} /\ ret) =>
       /\ secondary = <<>> /\ start_pos = 0
       /\ IsDirect(W) /\ available(W) = 0
       /\ Len(dest) = pos(W)
       /\ dest = written
  /\ (op.name = "ReadMode" /\ ~healthy) => ~ret

\* C14 witness: ReadMode() returned a reader after its flush merged an
\* overflow of more than one byte behind bytes already in the destination.
C14_Witness ==
  /\ op.name = "ReadMode" /\ ret /\ op.n > 1
  /\ Len(dest) > op.n /\ dest[1] # dest[Len(dest)]

\* The bytes the last step appended to the logical content.
JustWritten == SubSeq(written', Len(written) + 1, Len(written'))

\* C15: a slow-path append of n bytes that passes the overflow check in
\* Direct mode first shrinks dest to the logical size pos(). If
\* n <= dest.capacity() - dest.size() the writer stays Direct with an empty
\* overflow and the bytes go into dest behind the prefix; otherwise it
\* switches to Secondary mode, dest is exactly the prefix written before, and
\* a write puts all n bytes into the overflow.
C15_DirectOrSpill ==
  [][(healthy /\ IsDirect(W) /\ op'.name \in SlowAppends /\ ret') =>
       LET n == op'.n
           prefix == SubSeq(dest, 1, cur)
           write == op'.name # "PushSlow"
       IN  IF n <= dest_cap - Len(prefix)
             THEN /\ buf' = "dest" /\ secondary' = <<>> /\ start_pos' = 0
                  /\ dest_cap' = dest_cap
                  /\ SubSeq(dest', 1, cur') =
                       prefix \o (IF write THEN JustWritten ELSE <<>>)
                  /\ write => Len(JustWritten) = n
                  /\ ~write => buf_size' - cur' >= n
             ELSE /\ buf' = "sec"
                  /\ dest' = prefix /\ dest_cap' = dest_cap
                  /\ start_pos' = Len(prefix) + (IF write THEN n ELSE 0)
                  /\ write => /\ Len(JustWritten) = n
                              /\ SubSeq(secondary', 1, n) = JustWritten
                              /\ Len(secondary') = n + buf_size'
                  /\ ~write => /\ Len(secondary') = buf_size'
                               /\ buf_size' - cur' >= n
    ]_wvars

\* C15 witness: a two-byte WriteSlow() called in Direct mode did not fit
\* the spare capacity of a non-empty destination and went to the overflow.
C15_Witness ==
  /\ op.name = "WriteSlow" /\ op.direct /\ ret /\ op.n = 2
  /\ buf = "sec" /\ Len(dest) > 0 /\ dest_cap - Len(dest) = 1
  /\ SubSeq(secondary, 1, 2) = <<1, 1>>

Appends == SlowAppends \cup {"Write"}
Flushes == {"Flush", "ReadMode"}

\* C16: while the window is not Direct, Push(), Write() and WriteZeros() leave
\* the destination as it is (size, content and capacity, even when it has
\* spare capacity) and leave the window outside the destination; only a flush
\* (Flush() or ReadMode()) changes the destination, and the window becomes
\* Direct again only by a flush or by a Truncate() below dest.size().
C16_SecondaryIsSticky ==
  [][~IsDirect(W) =>
       /\ op'.name \in Appends =>
            dest' = dest /\ dest_cap' = dest_cap /\ buf' # "dest"
       /\ dest' # dest => op'.name \in Flushes
       /\ buf' = "dest" =>
            \/ op'.name \in Flushes
            \/ op'.name = "Truncate" /\ op'.n < Len(dest)
    ]_wvars

\* C16 witness: a WriteSlow() called in Secondary mode succeeded and left the
\* window in the overflow although the destination, which is not empty, has
\* spare capacity.
C16_Witness ==
  /\ op.name = "WriteSlow" /\ ~op.direct /\ ret
  /\ buf = "sec" /\ Len(dest) > 0 /\ dest_cap > Len(dest)
  /\ Len(secondary) > op.n

\* The writer's fields after the step, as one value.
WAfter == [dest |-> dest', cap |-> dest_cap', sec |-> secondary', buf |-> buf',
           size |-> buf_size', cur |-> cur', start_pos |-> start_pos',
           healthy |-> healthy', crashed |-> crashed', ret |-> TRUE]

\* C17: a successful Truncate(new_size) called while the window is not Direct
\* leaves dest as it is and pos() == new_size. If new_size < dest.size() the
\* overflow is dropped, start_pos is 0 and the window is Direct over dest with
\* the cursor at new_size; otherwise the overflow is cut to its first
\* new_size - dest.size() bytes, start_pos is new_size and the window is
\* cleared. A read-mode entry that follows and returns a reader exposes
\* exactly new_size bytes.
C17_TruncateInSecondary ==
  [][(healthy /\ ~IsDirect(W) /\ op'.name = "Truncate" /\ ret') =>
       LET new_size == op'.n IN
         /\ dest' = dest /\ dest_cap' = dest_cap
         /\ start_pos' + cur' = new_size
         /\ IF new_size < Len(dest)
              THEN /\ secondary' = <<>> /\ start_pos' = 0
                   /\ buf' = "dest" /\ buf_size' = Len(dest) /\ cur' = new_size
              ELSE /\ secondary' = SubSeq(secondary, 1, new_size - Len(dest))
                   /\ start_pos' = new_size
                   /\ buf' = "null" /\ buf_size' = 0 /\ cur' = 0
         /\ \A newcap \in ReallocCaps(dest_cap', UnsignedMin(max_size, new_size)) :
              LET f == FlushImpl(WAfter, newcap)
              IN  f.ret => Len(f.dest) = new_size /\ f.dest = written'
    ]_wvars

\* C17 witness: a truncation into the middle of the overflow, which keeps
\* some but not all of its bytes behind a non-empty destination.
C17_Witness ==
  /\ op.name = "Truncate" /\ ~op.direct /\ ret /\ tr.kind = "inside"
  /\ buf = "null" /\ Len(dest) > 0 /\ Len(secondary) > 0
  /\ op.n = Len(dest) + Len(secondary) /\ start_pos = op.n

\* The logical content of the stream: the bytes before pos(), read from the
\* destination and, outside Direct mode, from the overflow before the unused
\* part of the window.
Content(s) ==
  IF IsDirect(s) THEN SubSeq(s.dest, 1, s.cur)
  ELSE s.dest \o SubSeq(s.sec, 1, Len(s.sec) - available(s))

\* C18: a successful PushSlow(min_length, recommended_length) leaves pos() and
\* the logical content written so far unchanged and ends with
\* available() >= min_length, on each of its three paths.
C18_PushKeepsContent ==
  [][(healthy /\ op'.name = "PushSlow" /\ ret') =>
       /\ pos(WAfter) = pos(W)
       /\ Content(WAfter) = Content(W)
       /\ Content(WAfter) = written
       /\ available(WAfter) >= op'.n
    ]_wvars

\* C18 witness: a PushSlow(2) in Direct mode moved the window from a
\* non-empty destination without enough spare capacity to the overflow.
C18_Witness ==
  /\ op.name = "PushSlow" /\ op.direct /\ ret /\ op.n = 2
  /\ buf = "sec" /\ cur = 0 /\ buf_size >= 2
  /\ Len(dest) > 0 /\ start_pos = Len(dest) /\ dest = written

\* C20: in every reachable state with a Direct window the overflow is empty
\* and start_pos is 0; and whenever the overflow holds bytes the window is
\* not Direct and the destination is exactly a prefix of the bytes written,
\* without window slack, which start_pos does not fall short of.
C20_DirectMeansNoOverflow ==
  /\ IsDirect(W) => secondary = <<>> /\ start_pos = 0
  /\ secondary # <<>> =>
       /\ ~IsDirect(W)
       /\ Len(dest) <= Len(written)
       /\ dest = SubSeq(written, 1, Len(dest))
       /\ start_pos >= Len(dest)

\* C20 witness: a Truncate() below dest.size() called in Secondary mode has
\* put the window back over the destination, with bytes before and slack
\* behind the cursor.
C20_Witness ==
  /\ op.name = "Truncate" /\ ~op.direct /\ ret
  /\ IsDirect(W) /\ cur > 0 /\ available(W) > 0
  /\ secondary = <<>> /\ start_pos = 0

\* The step is an operation that called SyncSecondaryBuffer(): a slow-path
\* append or a flush of a healthy writer whose window is not Direct, past
\* the overflow check (a flush that ended in a failed check called it too).
SyncsSecondary ==
  /\ op'.name \in SlowAppends \cup Flushes
  /\ healthy /\ ~IsDirect(W)
  /\ ret' \/ crashed'

\* The step is a Truncate(new_size) that took the last branch of
\* TruncateImpl(): not Direct, dest.size() <= new_size <= pos().
TruncatesOverflow ==
  /\ op'.name = "Truncate" /\ ret'
  /\ healthy /\ ~IsDirect(W)
  /\ ~(op'.n < Len(dest))

\* C21: every length the writer passes to Chain::RemoveSuffix() is between 0
\* and the size of the overflow at that moment: available() when
\* SyncSecondaryBuffer() drops the unused tail of the window, and
\* dest.size() + secondary_buffer_.size() - new_size in TruncateImpl(), whose
\* unsigned subtraction equals the difference of the integers (no underflow).
C21_RemoveSuffixInRange ==
  [][/\ SyncsSecondary =>
          /\ SyncSuffixLength(W) >= 0
          /\ SyncSuffixLength(W) <= Len(secondary)
     /\ TruncatesOverflow =>
          LET n == TruncateSuffixLength(W, op'.n) IN
            /\ n = Len(dest) + Len(secondary) - op'.n
            /\ n >= 0
            /\ n <= Len(secondary)]_wvars

\* C21 witness: a Truncate() inside the overflow cut bytes and kept a
\* non-empty prefix, bytes were appended to the overflow after it, and a
\* flush called with a non-empty overflow has merged it.
C21_Witness ==
  /\ op.name \in Flushes /\ ~op.direct /\ ret /\ op.n > 0
  /\ tr.kind = "inside" /\ tr.app # <<>>
  /\ Len(tr.base) > 0 /\ Len(dest) = Len(tr.base) + Len(tr.app)

(***************************************************************************)
(* Properties of SharedBuffer.                                             *)
(***************************************************************************)
\* The holders of payload p: the constructed instances that point to it and
\* the outstanding Share() pointers.
Holders(p) == Cardinality({i \in Inst : alive[i] /\ payload_[i] = p}) + shares[p]

\* C4: a payload is freed exactly once, by the operation that drops its last
\* reference: it is freed at most once and never touched afterwards, it is
\* freed as soon as nothing holds it and not before. Copy-assigning or
\* move-assigning an instance to itself is among the operations. (A failed
\* allocation ends the process; the property is about the running process.)
C4_FreedExactlyOnce ==
  ~oom =>
    /\ ~misuse
    /\ \A p \in Pay :
         /\ frees[p] <= 1
         /\ (pstate[p] = "freed") = (frees[p] = 1)
         /\ pstate[p] = "freed" => Holders(p) = 0
         /\ pstate[p] = "live" => Holders(p) >= 1
         /\ pstate[p] = "none" => Holders(p) = 0

\* A payload has been freed, and the last operation assigned an instance
\* that still has a payload to itself.
C4_Witness ==
  /\ ~oom
  /\ sb_op.name \in {"CopyAssign", "MoveAssign"} /\ sb_op.self
  /\ \E p \in Pay : pstate[p] = "freed" /\ frees[p] = 1
  /\ \E i \in Inst : alive[i] /\ payload_[i] # 0 /\ Holders(payload_[i]) = 1

\* C6: the reference count of a live payload is the number of instances
\* that point to it plus the number of outstanding share pointers;
\* has_unique_owner() is true exactly when the instance is the only holder;
\* an instance without a payload is uniquely owned and has capacity 0.
C6_RefCountIsHolders ==
  ~oom =>
    /\ \A p \in Pay : pstate[p] = "live" => ref_count[p] = Holders(p)
    /\ \A i \in Inst :
         alive[i] =>
           IF payload_[i] = 0
             THEN has_unique_owner(B, i) /\ capacity(B, i) = 0
             ELSE has_unique_owner(B, i) = (Holders(payload_[i]) = 1)

\* An instance shares its payload with a share pointer only, so it is not
\* the unique owner; the other instance is null.
C6_Witness ==
  \E i \in Inst, j \in Inst :
    /\ ~oom /\ i # j /\ alive[i] /\ alive[j]
    /\ payload_[i] # 0 /\ shares[payload_[i]] = 1
    /\ ref_count[payload_[i]] = 2 /\ ~has_unique_owner(B, i)
    /\ payload_[j] = 0 /\ has_unique_owner(B, j)

\* C10: Reset(n) on an instance that is the only holder of a payload of
\* capacity at least n changes nothing: the instance keeps its payload, and
\* no payload is allocated, freed, resized or re-counted.
C10_ResetKeeps ==
  [][(/\ sb_op'.name = "Reset"
      /\ payload_[sb_op'.i] # 0
      /\ Holders(payload_[sb_op'.i]) = 1
      /\ pcapacity[payload_[sb_op'.i]] >= sb_op'.n)
     => UNCHANGED <<payload_, alive, shares, ref_count, pcapacity, pstate,
                    frees, misuse, oom>>]_bvars

\* Reset(n) with n > 0 ran on a sole holder whose capacity is exactly n, and
\* the instance kept its payload.
C10_Witness ==
  /\ ~oom /\ sb_op.name = "Reset" /\ sb_op.kept /\ sb_op.n > 0
  /\ payload_[sb_op.i] # 0
  /\ Holders(payload_[sb_op.i]) = 1
  /\ pcapacity[payload_[sb_op.i]] = sb_op.n

\* The last step was Reset(n) on an instance whose payload it had to replace:
\* the instance had a payload, and was not the sole holder of one with
\* capacity at least n. The allocation succeeded.
ResetReplaces ==
  /\ sb_op'.name = "Reset" /\ ~oom'
  /\ payload_[sb_op'.i] # 0
  /\ ~(Holders(payload_[sb_op'.i]) = 1 /\
       pcapacity[payload_[sb_op'.i]] >= sb_op'.n)

\* C11: Reset(n) which must replace the payload allocates a payload whose
\* capacity is at least max(n, 2 x old capacity), the doubling saturating at
\* the largest size_t; no step of the computation wraps, so the capacity is
\* never smaller than that.
C11_ResetGrowth ==
  [][ResetReplaces =>
       LET old == pcapacity[payload_[sb_op'.i]]
       IN  pcapacity'[payload_'[sb_op'.i]] >=
             UnsignedMax(sb_op'.n, SaturatingAdd(old, old))]_bvars

\* The holders of payload p after the step.
HoldersAfter(p) ==
  Cardinality({i \in Inst : alive'[i] /\ payload_'[i] = p}) + shares'[p]

\* C12: after Reset(n) on an instance in any state (null, sole holder, or
\* sharing its payload) the instance is the only holder of its payload and
\* capacity() >= n; a previous payload that was shared is still referenced
\* by its other holders, is not freed, and its reference count is one less.
C12_ResetPostcondition ==
  [][(sb_op'.name = "Reset" /\ ~oom') =>
       LET i == sb_op'.i
           p == payload_[i]
           q == payload_'[i]
       IN  /\ q # 0 /\ pstate'[q] = "live"
           /\ ref_count'[q] = 1 /\ HoldersAfter(q) = 1
           /\ pcapacity'[q] >= sb_op'.n
           /\ (p # 0 /\ Holders(p) > 1) =>
                /\ pstate'[p] = "live"
                /\ ref_count'[p] = ref_count[p] - 1
                /\ shares'[p] = shares[p]
                /\ \A j \in Inst \ {i} :
                     alive'[j] = alive[j] /\ payload_'[j] = payload_[j]
    ]_bvars

\* The last step was a Reset(n) that asked the allocator for a payload: the
\* instance was null, or was not the sole holder of a payload of capacity at
\* least n.
ResetAllocates ==
  /\ sb_op'.name = "Reset"
  /\ ~(/\ payload_[sb_op'.i] # 0
       /\ Holders(payload_[sb_op'.i]) = 1
       /\ pcapacity[payload_[sb_op'.i]] >= sb_op'.n)

\* C19, as claimed: Reset(n) asks for max(n, 2 x old capacity) only when the
\* instance is the sole holder of a payload with capacity below n; when it
\* replaces a payload shared with another holder, or is null, it asks for n.
C19_DoublingOnlyWhenGrowingOwned ==
  [][ResetAllocates =>
       LET p == payload_[sb_op'.i]
           n == sb_op'.n
       IN  sb_op'.req =
             IF p # 0 /\ Holders(p) = 1 /\ pcapacity[p] < n
               THEN UnsignedMax(n, SaturatingAdd(pcapacity[p], pcapacity[p]))
               ELSE n]_bvars

\* C19, amended: Reset(n) asks for max(n, 2 x old capacity), the doubling
\* saturating, whenever it replaces a payload, whether the instance was its
\* sole holder or shared it; it asks for n only when the instance is null.
C19_DoublingWheneverReplacing ==
  [][ResetAllocates =>
       LET p == payload_[sb_op'.i]
           n == sb_op'.n
       IN  sb_op'.req =
             IF p # 0
               THEN UnsignedMax(n, SaturatingAdd(pcapacity[p], pcapacity[p]))
               ELSE n]_bvars

\* C19 witness: Reset(n) replaced a payload which another holder still
\* keeps and whose capacity was already at least n, and asked for twice that
\* capacity.
C19_Witness ==
  /\ ~oom /\ sb_op.name = "Reset" /\ ~sb_op.kept
  /\ sb_op.req > sb_op.n
  /\ \E p \in Pay :
       /\ p # payload_[sb_op.i] /\ pstate[p] = "live" /\ Holders(p) >= 1
       /\ pcapacity[p] >= sb_op.n /\ pcapacity[p] > 0
       /\ sb_op.req = pcapacity[p] + pcapacity[p]

(***************************************************************************)
(* Properties of the concurrent release.                                   *)
(***************************************************************************)
\* C5: when several threads release their references concurrently, the
\* payload is freed exactly once, by the thread that drops the last
\* reference: never twice, never while another thread still owns a
\* reference or is inside Unref(), and always once every reference is gone;
\* no thread touches the payload after it is freed.
C5_ConcurrentRelease ==
  /\ ~c_misuse
  /\ c_frees <= 1
  /\ (c_state = "freed") = (c_frees = 1)
  /\ c_state = "freed" =>
       \A t \in Threads : t_held[t] = 0 /\ t_pc[t] = "idle"
  /\ (\A t \in Threads : t_held[t] = 0) => c_state = "freed"

\* The payload was freed by a thread whose fetch_sub dropped the count to 0:
\* the threads had read a count above 1 before the others decremented it.
C5_Witness ==
  /\ c_state = "freed" /\ c_frees = 1 /\ c_ref = 0
  /\ \A t \in Threads : t_held[t] = 0 /\ t_pc[t] = "idle"

=============================================================================
